---------------------------- MODULE Spec2Model ----------------------------
(***************************************************************************)
(* A model of the manifest rewriting and DASH->HLS conversion engine:      *)
(*   utils/mpd_converter.py      MPDToHLSConverter.convert_media_playlist  *)
(*   services/manifest_rewriter.py  ManifestRewriter.rewrite_mpd_manifest  *)
(*   services/manifest_rewriter.py  ManifestRewriter.rewrite_manifest_urls *)
(*   utils/mpd_converter.py      MPDToHLSConverter.convert_master_playlist *)
(*                                                                         *)
(* Each entry point is a function of its arguments.  A specification draws *)
(* the arguments of one call from bounded sets (Init) and its actions      *)
(* apply the entry point as the code computes it.  An XML attribute is a   *)
(* sequence: <<>> when the attribute is absent, <<v>> when it is present   *)
(* with the integer value v.  Durations are kept exact, as a number of     *)
(* ticks d together with the timescale (seconds = d / timescale).          *)
(***************************************************************************)
EXTENDS Integers, Sequences, FiniteSets, TLC

VARIABLES
    media_in,         \* arguments of convert_media_playlist (the parsed MPD)
    media_pc,         \* "idle" | "call" | "returned"
    media_err,        \* "" or the exception the call caught
    all_segments,     \* the expanded SegmentTimeline
    segments_to_use,  \* the segments the playlist lists
    lines,            \* the playlist returned, line by line
    mpd_text,         \* the manifest rewrite_mpd_manifest is called with next
    mpd_headers_ok,   \* every value of stream_headers is a string
    mpd_arg,          \* manifest_content of the last call
    mpd_clearkey,     \* clearkey_param of the last call (its number of fields)
    mpd_out,          \* the text the last call returned
    mpd_failed,       \* the last call returned from its except clause
    mpd_runs,         \* calls made so far
    mpd_pc,           \* "idle" | "call" | "returned"
    hls_in,           \* arguments of rewrite_manifest_urls
    hls_pc,           \* "idle" | "call" | "awaiting" | "classified" |
                      \* "returned" | "raised"
    hls_extractor,    \* what awaiting get_extractor_func gave
    is_vixsrc_stream,
    is_dlhd_stream,
    hls_out,          \* the playlist returned, line by line
    master_in,        \* arguments of convert_master_playlist (the parsed MPD)
    master_pc,        \* "idle" | "call" | "returned"
    master_out,       \* the master playlist returned, line by line
    procs,            \* the calls in flight on concurrent threads / tasks
    namespace_map     \* xml.etree.ElementTree._namespace_map, the prefix
                      \* registered for the DASH namespace (<<>> when none)

mediaVars == <<media_in, media_pc, media_err, all_segments, segments_to_use, lines>>

mpdVars == <<mpd_text, mpd_headers_ok, mpd_arg, mpd_clearkey, mpd_out, mpd_failed,
             mpd_runs, mpd_pc>>

hlsVars == <<hls_in, hls_pc, hls_extractor, is_vixsrc_stream, is_dlhd_stream, hls_out>>

masterVars == <<master_in, master_pc, master_out>>

concVars == <<procs, namespace_map>>

vars == <<mediaVars, mpdVars, hlsVars, masterVars, concVars>>

-----------------------------------------------------------------------------
(* Bounds of the model *)

MaxS == 2          \* <S> elements in a SegmentTimeline
MaxR == 1          \* largest r attribute of an <S> element
MaxAS == 1         \* AdaptationSets in an MPD
MaxCP == 2         \* ContentProtection children of an AdaptationSet
MaxRuns == 2       \* calls of rewrite_mpd_manifest, each on the last output
MaxLines == 2      \* lines of an HLS playlist drawn freely
MaxVariants == 2   \* variants of an HLS master playlist

(* Program constants *)

LIVE_WINDOW_SECONDS == 30
VodTargetDuration == 10
total_segments == 100
HlsVersion == 7

-----------------------------------------------------------------------------
(* Helpers *)

\* element.get(name, default) followed by int()
AttrOr(attr, default) == IF attr = <<>> THEN default ELSE attr[1]

\* len(range(n))
RangeLen(n) == IF n > 0 THEN n ELSE 0

\* The ticks of segs[lo..hi], summed by halves
RECURSIVE SumRange(_, _, _)
SumRange(segs, lo, hi) ==
    IF lo > hi THEN 0
    ELSE IF lo = hi THEN segs[lo].d
    ELSE LET mid == (lo + hi) \div 2
         IN  SumRange(segs, lo, mid) + SumRange(segs, mid + 1, hi)

SumD(segs) == SumRange(segs, 1, Len(segs))

\* max(seg['duration'] for seg in segs), in ticks; segs is not empty
MaxD(segs) ==
    CHOOSE m \in {segs[i].d : i \in 1..Len(segs)} :
        \A i \in 1..Len(segs) : segs[i].d <= m

\* One line of the playlist.  num: the tag's number (or the segment's
\* sequence number), time: the segment's $Time$, d/ts: a duration in ticks
\* and its timescale, url: the URL scheme of a URI line.
Line(tag, num, time, d, ts, url) ==
    [tag |-> tag, num |-> num, time |-> time, d |-> d, ts |-> ts, url |-> url]

Tag(tag) == Line(tag, 0, 0, 0, 0, "")

TagNum(tag, num) == Line(tag, num, 0, 0, 0, "")

\* list.insert(i, x) with a 0-based index i <= len(list)
InsertAt(list, i, x) == SubSeq(list, 1, i) \o <<x>> \o SubSeq(list, i + 1, Len(list))


-----------------------------------------------------------------------------
(* convert_media_playlist: the SegmentTimeline expansion *)

\* An <S> element is repeated r + 1 times: `for _ in range(r + 1)`
RepeatsOffByOne(r) == RangeLen(r)

Repeats(r) == RangeLen(r + 1)

\* The sequence number of the k-th (0-based) segment appended after
\* segment_number: `segment_number += 1` once per appended segment
SegmentNumberStuck(segment_number, k) == segment_number

SegmentNumberAt(segment_number, k) == segment_number + k

\* The segments one <S> element appends, given the running clock and number
SegmentsOfS(s, current_time, segment_number) ==
    LET d == s.d[1]
    IN  [k \in 1..Repeats(s.r) |->
            [time   |-> current_time + (k - 1) * d,
             number |-> SegmentNumberAt(segment_number, k - 1),
             d      |-> d]]

\* The loop over the <S> elements, from element i on
RECURSIVE ExpandFrom(_, _, _, _)
ExpandFrom(timeline, i, current_time, segment_number) ==
    IF i > Len(timeline) THEN <<>>
    ELSE LET s    == timeline[i]
             ct   == IF s.t # <<>> THEN s.t[1] ELSE current_time
             segs == SegmentsOfS(s, ct, segment_number)
             n    == Len(segs)
         IN  segs \o ExpandFrom(timeline, i + 1, ct + n * s.d[1],
                                SegmentNumberAt(segment_number, n))

ExpandTimeline(timeline, start_number) == ExpandFrom(timeline, 1, 0, start_number)

\* What makes the expansion raise: int(None) for an <S> without d, and
\* d / timescale with timescale = 0
TimelineRaises(timeline, timescale) ==
    \/ \E i \in 1..Len(timeline) : timeline[i].d = <<>>
    \/ Len(timeline) > 0 /\ timescale = 0

-----------------------------------------------------------------------------
(* convert_media_playlist: the live window *)

\* `if total_duration >= LIVE_WINDOW_SECONDS: break`, total in ticks
WindowFullOneLate(total, timescale) == total > LIVE_WINDOW_SECONDS * timescale

WindowFull(total, timescale) == total >= LIVE_WINDOW_SECONDS * timescale

\* `for seg in reversed(all_segments)`: from segment i down, with the total
\* accumulated and the segments kept so far
RECURSIVE LiveFrom(_, _, _, _, _)
LiveFrom(segs, i, total, kept, timescale) ==
    IF i = 0 THEN kept
    ELSE LET kept2  == <<segs[i]>> \o kept
             total2 == total + segs[i].d
         IN  IF WindowFull(total2, timescale) THEN kept2
             ELSE LiveFrom(segs, i - 1, total2, kept2, timescale)

LiveSegments(segs, timescale) == LiveFrom(segs, Len(segs), 0, <<>>, timescale)

\* int(max_duration) + 1
LiveTargetDuration(segs, timescale) == (MaxD(segs) \div timescale) + 1

-----------------------------------------------------------------------------
(* convert_media_playlist: the playlist *)

IsLive(in) == in.mpd_type = "dynamic"

\* clearkey_param.split(':') unpacked into exactly kid_hex, key_hex;
\* clearkey is the number of ':'-separated fields, 0 for no parameter
ServerSideDecryption(in) == in.clearkey = 2

HeaderLines(is_live) ==
    IF is_live
    THEN <<Tag("#EXTM3U"), TagNum("#EXT-X-VERSION", HlsVersion), Tag("#EXT-X-START")>>
    ELSE <<Tag("#EXTM3U"), TagNum("#EXT-X-VERSION", HlsVersion),
           TagNum("#EXT-X-TARGETDURATION", VodTargetDuration),
           Tag("#EXT-X-PLAYLIST-TYPE")>>

MapLines(in) ==
    IF in.initialization /\ ~ServerSideDecryption(in)
    THEN <<Line("#EXT-X-MAP", 0, 0, 0, 0, "segment/init.mp4")>>
    ELSE <<>>

\* #EXTINF and the URL of one segment of the timeline
SegmentLines(segs, timescale, ssd) ==
    [k \in 1..(2 * Len(segs)) |->
        LET seg == segs[(k + 1) \div 2]
        IN  IF k % 2 = 1
            THEN Line("#EXTINF", 0, 0, seg.d, timescale, "")
            ELSE Line("URI", seg.number, seg.time, 0, 0,
                      IF ssd THEN "decrypt/segment.mp4" ELSE "segment")]

\* The fixed-duration template: `for i in range(total_segments)`
FixedLines(start_number, duration, timescale) ==
    [k \in 1..(2 * total_segments) |->
        LET i == (k - 1) \div 2
        IN  IF k % 2 = 1
            THEN Line("#EXTINF", 0, 0, duration, timescale, "")
            ELSE Line("URI", start_number + i, 0, 0, 0, "segment")]

ErrorPlaylist == <<Tag("#EXTM3U"), Tag("#EXT-X-ERROR")>>

\* `if not is_live: lines.append('#EXT-X-ENDLIST')`
EndListForgotten(is_live) == <<>>

EndList(is_live) == IF is_live THEN <<>> ELSE <<Tag("#EXT-X-ENDLIST")>>

Failed(why) ==
    [err |-> why, all_segments |-> <<>>, segments_to_use |-> <<>>,
     lines |-> ErrorPlaylist]

Returned(all, used, ls) ==
    [err |-> "", all_segments |-> all, segments_to_use |-> used, lines |-> ls]

\* `first_seg_number = segments_to_use[0]['number']`
MediaSequenceZeroBased(used) == used[1].number - 1

MediaSequenceOf(used) == used[1].number

\* The body of the SegmentTimeline branch
TimelinePlaylist(in, head) ==
    LET is_live      == IsLive(in)
        timescale    == AttrOr(in.timescale, 1)
        start_number == AttrOr(in.startNumber, 1)
        all          == ExpandTimeline(in.timeline, start_number)
        windowed     == is_live /\ Len(all) > 0
        used         == IF windowed THEN LiveSegments(all, timescale) ELSE all
        seq          == IF windowed
                        THEN InsertAt(head, 2,
                                 TagNum("#EXT-X-TARGETDURATION",
                                        LiveTargetDuration(used, timescale)))
                             \o <<TagNum("#EXT-X-MEDIA-SEQUENCE", MediaSequenceOf(used))>>
                        ELSE head \o <<TagNum("#EXT-X-MEDIA-SEQUENCE", 0)>>
    IN  IF TimelineRaises(in.timeline, timescale) THEN Failed("timeline")
        ELSE IF used # <<>> /\ ~in.media THEN Failed("media")
        ELSE Returned(all, used,
                      seq \o SegmentLines(used, timescale, ServerSideDecryption(in))
                          \o EndList(is_live))

\* The body of the fixed-duration branch
DurationPlaylist(in, head) ==
    LET timescale    == AttrOr(in.timescale, 1)
        start_number == AttrOr(in.startNumber, 1)
        duration     == AttrOr(in.duration, 0)
    IN  IF duration > 0
        THEN IF ~in.has_period THEN Failed("period")
             ELSE IF timescale = 0 THEN Failed("timescale")
             ELSE IF ~in.media THEN Failed("media")
             ELSE Returned(<<>>, <<>>,
                           head \o FixedLines(start_number, duration, timescale)
                                \o EndList(IsLive(in)))
        ELSE Returned(<<>>, <<>>, head \o EndList(IsLive(in)))

ConvertMediaPlaylist(in) ==
    IF ~in.parse_ok THEN Failed("parse")
    ELSE IF ~in.rep_found THEN Failed("Representation not found")
    ELSE IF in.template = "none"
         THEN Returned(<<>>, <<>>, HeaderLines(IsLive(in)) \o EndList(IsLive(in)))
    ELSE IF in.base_url = "empty" THEN Failed("base_url")
    ELSE LET head == HeaderLines(IsLive(in)) \o MapLines(in)
         IN  IF in.template = "timeline" THEN TimelinePlaylist(in, head)
             ELSE DurationPlaylist(in, head)


-----------------------------------------------------------------------------
(* The calls of convert_media_playlist the model makes *)

TAttrs == {<<>>, <<0>>}

DAttrs == {<<10>>, <<20>>}

RValues == (-2)..MaxR

SElems == [t : TAttrs, d : DAttrs, r : RValues]

Timelines == UNION {[1..n -> SElems] : n \in 0..MaxS}

S(t, d, r) == [t |-> t, d |-> d, r |-> r]

DefaultInput ==
    [parse_ok |-> TRUE, mpd_type |-> "static", rep_found |-> TRUE,
     template |-> "timeline", timescale |-> <<>>, startNumber |-> <<>>,
     initialization |-> TRUE, media |-> TRUE, duration |-> <<>>,
     has_period |-> TRUE, base_url |-> "absent", clearkey |-> 0,
     timeline |-> <<>>]

MpdTypes == {"static", "dynamic"}

\* Every timeline within the bounds, live and VOD
TimelineInputs ==
    {[DefaultInput EXCEPT !.mpd_type = ty, !.timescale = ts,
                          !.startNumber = sn, !.timeline = tl] :
        ty \in MpdTypes, ts \in {<<>>, <<2>>}, sn \in {<<>>, <<0>>},
        tl \in Timelines}

SmallTimelines ==
    {<<>>, <<S(<<>>, <<10>>, 1)>>, <<S(<<>>, <<>>, 0)>>,
     <<S(<<0>>, <<20>>, 0), S(<<>>, <<>>, 1)>>}

\* The template's attributes, the DRM parameter and the malformed inputs
TemplateInputs ==
    {[DefaultInput EXCEPT !.mpd_type = ty, !.template = tp, !.clearkey = ck,
                          !.initialization = ini, !.media = me,
                          !.timescale = ts, !.duration = du, !.timeline = tl] :
        ty \in MpdTypes, tp \in {"none", "timeline", "duration"}, ck \in 0..3,
        ini \in BOOLEAN, me \in BOOLEAN, ts \in {<<>>, <<0>>},
        du \in {<<>>, <<0>>, <<2>>}, tl \in SmallTimelines}

DocumentInputs ==
    {[DefaultInput EXCEPT !.mpd_type = ty, !.template = tp, !.parse_ok = po,
                          !.rep_found = rf, !.has_period = hp, !.base_url = bu,
                          !.duration = <<2>>] :
        ty \in MpdTypes, tp \in {"none", "timeline", "duration"},
        po \in BOOLEAN, rf \in BOOLEAN, hp \in BOOLEAN,
        bu \in {"absent", "text", "empty"}}

\* 50 segments of 2 seconds each, written as one <S> or as two
ExampleTimelines(ts) ==
    {<<S(t, <<2 * ts>>, 49)>> : t \in TAttrs}
    \cup {<<S(t, <<2 * ts>>, 24), S(<<>>, <<2 * ts>>, 24)>> : t \in TAttrs}

ExampleInputs ==
    UNION {{[DefaultInput EXCEPT !.mpd_type = ty, !.timescale = <<ts>>,
                                 !.startNumber = sn, !.timeline = tl] :
               ty \in MpdTypes, sn \in {<<>>, <<0>>, <<1>>},
               tl \in ExampleTimelines(ts)} : ts \in {1, 1000}}

MediaInputs == TimelineInputs \cup TemplateInputs \cup DocumentInputs \cup ExampleInputs

MpdIdle ==
    /\ mpd_text = <<>>
    /\ mpd_headers_ok = TRUE
    /\ mpd_arg = <<>>
    /\ mpd_clearkey = 0
    /\ mpd_out = <<>>
    /\ mpd_failed = FALSE
    /\ mpd_runs = 0
    /\ mpd_pc = "idle"

HlsIdle ==
    /\ hls_in = <<>>
    /\ hls_pc = "idle"
    /\ hls_extractor = "none"
    /\ is_vixsrc_stream = FALSE
    /\ is_dlhd_stream = FALSE
    /\ hls_out = <<>>

MasterIdle ==
    /\ master_in = <<>>
    /\ master_pc = "idle"
    /\ master_out = <<>>

\* No concurrent call; the registry is as the interpreter starts with it
ConcIdle ==
    /\ procs = <<>>
    /\ namespace_map = <<>>

InitMedia ==
    /\ MpdIdle
    /\ HlsIdle
    /\ MasterIdle
    /\ ConcIdle
    /\ media_in \in MediaInputs
    /\ media_pc = "call"
    /\ media_err = ""
    /\ all_segments = <<>>
    /\ segments_to_use = <<>>
    /\ lines = <<>>

\* One call of convert_media_playlist, from entry to its return
ConvertMedia ==
    /\ media_pc = "call"
    /\ LET res == ConvertMediaPlaylist(media_in)
       IN  /\ media_err' = res.err
           /\ all_segments' = res.all_segments
           /\ segments_to_use' = res.segments_to_use
           /\ lines' = res.lines
    /\ media_pc' = "returned"
    /\ UNCHANGED <<media_in, mpdVars, hlsVars, masterVars, concVars>>

NextMedia == ConvertMedia

SpecMedia == InitMedia /\ [][NextMedia]_vars


-----------------------------------------------------------------------------
(* rewrite_mpd_manifest *)

(* The manifest text is kept as what the function reads of it:              *)
(*   well_formed  ET.fromstring accepts it                                  *)
(*   xmlns        the text contains 'xmlns' (then: the DASH default         *)
(*                namespace is declared)                                    *)
(*   mpd_tag      the text contains '<MPD'                                  *)
(*   asets        per AdaptationSet, its ContentProtection children         *)
(* A ContentProtection child is [scheme, laurl, wraps]: scheme is "CK" for  *)
(* schemeIdUri = 'urn:uuid:e2719d58-a985-b3c9-781a-007147f192ec' exactly,   *)
(* "CK_UPPER" for the same UUID written in upper case, "WV" for another     *)
(* DRM system; laurl is "none", "origin" (a Laurl child with a licence URL) *)
(* or "clearkey" ({proxy_base}/license?clearkey=...); wraps counts how      *)
(* often the licence URL has been rewritten to {proxy_base}/license?url=.   *)
(* In the parsed tree a node also has `qualified`: its tag is in the DASH   *)
(* namespace, so that 'mpd:ContentProtection' finds it.                     *)

\* `if 'xmlns' not in manifest_content: manifest_content.replace('<MPD', ...)`
Normalized(text) == [text EXCEPT !.xmlns = text.xmlns \/ text.mpd_tag]

\* ET.fromstring: the elements of a document that declares the namespace
\* are qualified
ParseCP(cp, namespaced) ==
    [scheme |-> cp.scheme, laurl |-> cp.laurl, wraps |-> cp.wraps,
     qualified |-> namespaced]

ParseSet(cps, namespaced) == [i \in 1..Len(cps) |-> ParseCP(cps[i], namespaced)]

\* ET.tostring with '' registered for the DASH namespace: a qualified and an
\* unqualified ContentProtection are both written without a prefix
SerializeCP(node) == [scheme |-> node.scheme, laurl |-> node.laurl, wraps |-> node.wraps]

SerializeSet(nodes) == [i \in 1..Len(nodes) |-> SerializeCP(nodes[i])]

\* `'e2719d58-a985-b3c9-781a-007147f192ec' not in scheme` with
\* scheme = cp.get('schemeIdUri', '').lower()
IsClearKeyLowered(scheme) == scheme \in {"CK", "CK_UPPER"}

\* `cp.get('schemeIdUri') == 'urn:uuid:e2719d58-a985-b3c9-781a-007147f192ec'`
IsClearKeyExact(scheme) == scheme = "CK"

\* adaptation_set.findall('mpd:ContentProtection', ns)
RECURSIVE FindCP(_)
FindCP(nodes) ==
    IF nodes = <<>> THEN <<>>
    ELSE (IF nodes[1].qualified THEN <<nodes[1]>> ELSE <<>>) \o FindCP(Tail(nodes))

\* The removal loop: the children left in the AdaptationSet
RECURSIVE RemoveConflicting(_)
RemoveConflicting(nodes) ==
    IF nodes = <<>> THEN <<>>
    ELSE (IF nodes[1].qualified /\ ~IsClearKeyLowered(nodes[1].scheme)
          THEN <<>> ELSE <<nodes[1]>>)
         \o RemoveConflicting(Tail(nodes))

\* existing_cp after the second loop
ExistingCP(nodes) ==
    \E i \in 1..Len(nodes) : nodes[i].qualified /\ IsClearKeyExact(nodes[i].scheme)

\* cp_element: ET.Element('ContentProtection'), a tag without namespace
CpElement == [scheme |-> "CK", laurl |-> "clearkey", wraps |-> 0, qualified |-> FALSE]

\* The body of `for adaptation_set in adaptation_sets`
InjectInto(nodes) ==
    LET left == RemoveConflicting(nodes)
    IN  IF ~ExistingCP(left) THEN <<CpElement>> \o left ELSE left

\* The licence rewrite: `if 'Laurl' in child.tag and child.text` for the
\* children of every node './/mpd:ContentProtection' finds
ProxyLicense(node) ==
    IF node.qualified /\ node.laurl # "none"
    THEN [node EXCEPT !.wraps = node.wraps + 1] ELSE node

ProxyLicenses(nodes) == [i \in 1..Len(nodes) |-> ProxyLicense(nodes[i])]

\* `if clearkey_param:` alone, as if the split took any number of fields
ClearKeyGiven(clearkey) == clearkey # 0

\* kid_hex, key_hex = clearkey_param.split(':') succeeds
ClearKeyParses(clearkey) == clearkey = 2

\* The text the except clause returns: `return manifest_content`
ReturnedOnError(arg) == Normalized(arg)

\* rewrite_mpd_manifest(manifest_content = arg, stream_headers, clearkey_param)
RewriteMpdManifest(arg, headers_ok, clearkey) ==
    LET text       == Normalized(arg)
        namespaced == text.xmlns
        tree       == [a \in 1..Len(text.asets) |-> ParseSet(text.asets[a], namespaced)]
        \* './/mpd:AdaptationSet' finds the sets of a namespaced document only
        injected   == [a \in 1..Len(tree) |->
                          IF namespaced /\ ClearKeyParses(clearkey)
                          THEN InjectInto(tree[a]) ELSE tree[a]]
        proxied    == [a \in 1..Len(tree) |-> ProxyLicenses(injected[a])]
    IN  IF ~text.well_formed \/ ~headers_ok
        THEN [failed |-> TRUE, out |-> ReturnedOnError(arg)]
        ELSE [failed |-> FALSE,
              out |-> [text EXCEPT !.asets =
                          [a \in 1..Len(tree) |-> SerializeSet(proxied[a])]]]

-----------------------------------------------------------------------------
(* The calls of rewrite_mpd_manifest the model makes *)

CPChildren ==
    {[scheme |-> "WV", laurl |-> "origin", wraps |-> 0],
     [scheme |-> "CK", laurl |-> "none", wraps |-> 0],
     [scheme |-> "CK_UPPER", laurl |-> "none", wraps |-> 0]}

CPLists == UNION {[1..n -> CPChildren] : n \in 0..MaxCP}

ASetLists == UNION {[1..n -> CPLists] : n \in 0..MaxAS}

\* Well-formed MPDs (with or without a namespace declaration; a root that is
\* not spelled MPD gets none), and texts the parser rejects
MpdTexts ==
    {[well_formed |-> TRUE, xmlns |-> x, mpd_tag |-> m, asets |-> as] :
        x \in BOOLEAN, m \in BOOLEAN, as \in ASetLists}
    \cup {[well_formed |-> FALSE, xmlns |-> x, mpd_tag |-> m, asets |-> <<>>] :
        x \in BOOLEAN, m \in BOOLEAN}

MediaIdle ==
    /\ media_in = <<>>
    /\ media_pc = "idle"
    /\ media_err = ""
    /\ all_segments = <<>>
    /\ segments_to_use = <<>>
    /\ lines = <<>>

InitMpd ==
    /\ MediaIdle
    /\ HlsIdle
    /\ MasterIdle
    /\ ConcIdle
    /\ mpd_text \in MpdTexts
    /\ mpd_headers_ok \in BOOLEAN
    /\ mpd_arg = mpd_text
    /\ mpd_clearkey = 0
    /\ mpd_out = mpd_text
    /\ mpd_failed = FALSE
    /\ mpd_runs = 0
    /\ mpd_pc = "call"

\* One call of rewrite_mpd_manifest on mpd_text, from entry to its return
RewriteMpd ==
    /\ mpd_pc = "call"
    /\ \E clearkey \in 0..3 :
        LET res == RewriteMpdManifest(mpd_text, mpd_headers_ok, clearkey)
        IN  /\ mpd_arg' = mpd_text
            /\ mpd_clearkey' = clearkey
            /\ mpd_out' = res.out
            /\ mpd_failed' = res.failed
    /\ mpd_runs' = mpd_runs + 1
    /\ mpd_pc' = "returned"
    /\ UNCHANGED <<mpd_text, mpd_headers_ok, mediaVars, hlsVars, masterVars,
                   concVars>>

\* The caller runs the rewriter again, on the text the last call returned
RerunOnOutput ==
    /\ mpd_pc = "returned"
    /\ mpd_runs < MaxRuns
    /\ mpd_text' = mpd_out
    /\ mpd_pc' = "call"
    /\ UNCHANGED <<mpd_headers_ok, mpd_arg, mpd_clearkey, mpd_out, mpd_failed,
                   mpd_runs, mediaVars, hlsVars, masterVars, concVars>>

NextMpd == RewriteMpd \/ RerunOnOutput

SpecMpd == InitMpd /\ [][NextMpd]_vars

-----------------------------------------------------------------------------
(* rewrite_manifest_urls *)

(* A line of the playlist (an element of manifest_content.split('\n')) is   *)
(* kept as what the function reads of it:                                   *)
(*   lead, trail  it starts / ends with whitespace (a '\r', a blank)        *)
(*   kind   "KEY" | "MEDIA" | "MAP" | "INF" (#EXT-X-STREAM-INF:) | "TAG"    *)
(*          (another '#' line) | "EMPTY" (nothing but whitespace) | "REF"   *)
(*          (a non-empty line that is no '#' line), read after the          *)
(*          whitespace                                                      *)
(*   uri    of a tag: "none" (no 'URI='), "quoted" (URI="..." with a value  *)
(*          and a closing quote), "unquoted" ('URI=' without 'URI="' or     *)
(*          without a closing quote or value)                               *)
(*   form   of the URI value or of the REF line: "relative", "absolute"     *)
(*          (starts with http), "bad_relative", "bad_absolute" (urlsplit    *)
(*          raises ValueError on it, as on '//[x'); "" when there is none   *)
(*   m3u8   the resolved URL contains '.m3u8'                               *)
(*   bandwidth   the numbers of the line's matches of BANDWIDTH=(\d+), in    *)
(*          the order they stand in the line: <<>> (no match), <<b>> (the   *)
(*          BANDWIDTH attribute first), <<a, b>> (AVERAGE-BANDWIDTH=a       *)
(*          written before BANDWIDTH=b); re.search takes the first          *)
(* A line of the output is [src, form, lead, trail, url]: src is the input   *)
(* line it was made from (0 for a line the function adds), form says what   *)
(* was written, lead and trail whether the written line starts / ends with  *)
(* whitespace, url the URL written in place of the URI value or of the      *)
(* reference (<<>> when the line carries none).                             *)
(*                                                                          *)
(* Text (a URL, a header name or value) is a sequence of tokens: a reserved *)
(* character on its own (":", "/", "?", "&", "=", " ") or a run of          *)
(* unreserved characters ("https", "o.example", "key.bin").                 *)

HLine(kind, lead, trail, uri, form, m3u8, bandwidth) ==
    [kind |-> kind, lead |-> lead, trail |-> trail, uri |-> uri, form |-> form,
     m3u8 |-> m3u8, bandwidth |-> bandwidth]

Out(src, form, lead, trail, url) ==
    [src |-> src, form |-> form, lead |-> lead, trail |-> trail, url |-> url]

\* The characters urllib.parse.quote escapes unless they are in `safe`
ReservedChars == {":", "/", "?", "&", "=", " "}

\* '%' followed by the two hex digits of the character
PercentEncoded(c) ==
    CASE c = ":" -> "%3A"
      [] c = "/" -> "%2F"
      [] c = "?" -> "%3F"
      [] c = "&" -> "%26"
      [] c = "=" -> "%3D"
      [] c = " " -> "%20"

\* urllib.parse.quote(text, safe=safe)
Quote(text, safe) ==
    [i \in 1..Len(text) |->
        IF text[i] \in ReservedChars \ safe THEN PercentEncoded(text[i])
        ELSE text[i]]

\* quote(text): the default safe is '/'
QuoteSafeEmpty(text) == Quote(text, {})

QuoteDefault(text) == Quote(text, {"/"})

\* The index of the first / last token of text equal to c, 0 when none
FirstIndex(text, c) ==
    IF \E i \in 1..Len(text) : text[i] = c
    THEN CHOOSE i \in 1..Len(text) :
            text[i] = c /\ \A j \in 1..(i - 1) : text[j] # c
    ELSE 0

LastIndex(text, c) ==
    IF \E i \in 1..Len(text) : text[i] = c
    THEN CHOOSE i \in 1..Len(text) :
            text[i] = c /\ \A j \in (i + 1)..Len(text) : text[j] # c
    ELSE 0

\* urlparse(url).query: what follows the first '?'
QueryOf(url) ==
    IF FirstIndex(url, "?") = 0 THEN <<>>
    ELSE SubSeq(url, FirstIndex(url, "?") + 1, Len(url))

\* line.startswith('http')
StartsWithHttp(text) == text # <<>> /\ text[1] \in {"http", "https"}

\* urlsplit raises ValueError on an unclosed '[' in the host
IsBadUrl(text) == \E i \in 1..Len(text) : text[i] = "[x"

\* urljoin(base_url, ref) for a ref urlsplit accepts: an absolute ref is
\* kept, a relative one replaces what follows the last '/' of the base's path
UrlJoin(base_url, ref) ==
    IF StartsWithHttp(ref) THEN ref
    ELSE LET path == IF FirstIndex(base_url, "?") = 0 THEN base_url
                     ELSE SubSeq(base_url, 1, FirstIndex(base_url, "?") - 1)
         IN  SubSeq(path, 1, LastIndex(path, "/")) \o ref

\* What the except clause leaves: is_vixsrc_stream, is_dlhd_stream as
\* initialised, and the exception swallowed
FlagsOnFailurePropagated == [vix |-> FALSE, dlhd |-> FALSE, raised |-> TRUE]

FlagsOnFailure == [vix |-> FALSE, dlhd |-> FALSE, raised |-> FALSE]

\* The flags after `extractor = await get_extractor_func(...)` returned
FlagsOf(extractor, dlhd_available) ==
    IF extractor = "vixsrc" THEN [vix |-> TRUE, dlhd |-> FALSE, raised |-> FALSE]
    ELSE IF dlhd_available /\ extractor = "dlhd"
         THEN [vix |-> FALSE, dlhd |-> TRUE, raised |-> FALSE]
    ELSE [vix |-> FALSE, dlhd |-> FALSE, raised |-> FALSE]

\* `line.startswith('#EXT-X-STREAM-INF:')` and the BANDWIDTH match, on the
\* line as split (not stripped)
IsStream(line) == line.kind = "INF" /\ ~line.lead /\ line.bandwidth # <<>>

StreamIndexes(ls) == {i \in 1..Len(ls) : IsStream(ls[i])}

\* `lines[i+1]` for a stream on the last line: IndexError
VixScanRaises(ls) == Len(ls) \in StreamIndexes(ls)

\* max(streams, key=bandwidth): the first stream of maximal bandwidth
HighestQuality(ls) ==
    CHOOSE i \in StreamIndexes(ls) :
        \A j \in StreamIndexes(ls) :
            \/ ls[j].bandwidth[1] < ls[i].bandwidth[1]
            \/ ls[j].bandwidth[1] = ls[i].bandwidth[1] /\ i <= j

\* The text of the URI value of a tag, or of a reference line
UriOf(line) ==
    LET name == IF line.m3u8 THEN "v.m3u8"
                ELSE IF line.kind = "KEY" THEN "key.bin" ELSE "seg.ts"
    IN  CASE line.form = "relative" -> <<name>>
          [] line.form = "absolute" -> <<"https", ":", "/", "/", "c.example", "/", name>>
          [] line.form = "bad_relative" -> <<"/", "/", "[x">>
          [] line.form = "bad_absolute" -> <<"http", ":", "/", "/", "[x">>
          [] OTHER -> <<>>

\* A line of the input put into the output as it is
Verbatim(ls, i) == Out(i, "verbatim", ls[i].lead, ls[i].trail, UriOf(ls[i]))

\* [line for line in lines if line.startswith('#EXT-X-MEDIA:')]
RECURSIVE MediaTagsFrom(_, _)
MediaTagsFrom(ls, i) ==
    IF i > Len(ls) THEN <<>>
    ELSE (IF ls[i].kind = "MEDIA" /\ ~ls[i].lead THEN <<Verbatim(ls, i)>> ELSE <<>>)
         \o MediaTagsFrom(ls, i + 1)

VixSrcPlaylist(ls) ==
    LET h == HighestQuality(ls)
    IN  <<Out(0, "#EXTM3U", FALSE, FALSE, <<>>)>> \o MediaTagsFrom(ls, 1)
        \o <<Verbatim(ls, h), Verbatim(ls, h + 1)>>

\* `uri_start > 4 and uri_end > uri_start`
HasQuotedUri(line) == line.uri = "quoted"

\* urljoin(base_url, value) raises ValueError
UrlJoinRaises(line) == IsBadUrl(UriOf(line))

\* "".join(f"&h_{quote(key)}={quote(value)}" for key, value in headers)
RECURSIVE HeaderPairs(_)
HeaderPairs(headers) ==
    IF headers = <<>> THEN <<>>
    ELSE <<"&h_">> \o QuoteDefault(headers[1].name) \o <<"=">>
         \o QuoteDefault(headers[1].value) \o HeaderPairs(Tail(headers))

\* `if api_password: ... += f"&api_password={api_password}"`
ApiPassword(ctx) ==
    IF ctx.api_password = <<>> THEN <<>>
    ELSE <<"&api_password=">> \o ctx.api_password

\* header_params
HeaderParams(ctx) == HeaderPairs(ctx.stream_headers) \o ApiPassword(ctx)

\* f"{proxy_base}<endpoint>{quote(url, safe='')}{header_params}"
ProxyUrl(endpoint, url, ctx) ==
    <<"{proxyBase}", endpoint>> \o QuoteSafeEmpty(url) \o HeaderParams(ctx)

\* proxy_key_url with the key URL quoted with the default safe ('/' kept)
ProxyKeyUrlDefaultSafe(url, ctx) ==
    <<"{proxyBase}", "/key?key_url=">> \o QuoteDefault(url)
    \o <<"&original_channel_url=">> \o QuoteSafeEmpty(ctx.original_channel_url)
    \o HeaderPairs(ctx.stream_headers) \o ApiPassword(ctx)

\* proxy_key_url
ProxyKeyUrl(url, ctx) ==
    <<"{proxyBase}", "/key?key_url=">> \o QuoteSafeEmpty(url)
    \o <<"&original_channel_url=">> \o QuoteSafeEmpty(ctx.original_channel_url)
    \o HeaderPairs(ctx.stream_headers) \o ApiPassword(ctx)

\* absolute_url of a reference line: resolved unless it starts with http,
\* then given the query of base_url when it has none
AbsoluteRef(text, ctx) ==
    LET absolute_url == IF StartsWithHttp(text) THEN text
                        ELSE UrlJoin(ctx.base_url, text)
    IN  IF QueryOf(ctx.base_url) # <<>> /\ FirstIndex(absolute_url, "?") = 0
        THEN absolute_url \o <<"?">> \o QueryOf(ctx.base_url)
        ELSE absolute_url

\* '.m3u8' in absolute_url
HasM3u8(url) == \E i \in 1..Len(url) : url[i] \in {"v.m3u8", "index.m3u8"}

\* A DLHD segment sent through the proxy like any other segment
DlhdSegmentProxied(i, absolute_url, ctx) ==
    Out(i, "proxy/hls/segment.mp4", FALSE, FALSE,
        ProxyUrl("/proxy/hls/segment.mp4?d=", absolute_url, ctx))

\* `if is_dlhd_stream: rewritten_lines.append(absolute_url)`
DlhdSegment(i, absolute_url, ctx) ==
    Out(i, "absolute", FALSE, FALSE, absolute_url)

\* The line appended after `line = line.lstrip()`: the trailing whitespace
\* stays
StrippedAtTheLeft(line, i) == Out(i, "stripped", FALSE, line.trail, UriOf(line))

\* The line after `line = line.strip()`, appended as it is
Stripped(line, i) == Out(i, "stripped", FALSE, FALSE, UriOf(line))

\* One iteration of `for line in lines` of the standard path: the line
\* appended, or "raise"
RewriteLine(line, i, dlhd, ctx) ==
    IF line.kind \in {"KEY", "MEDIA", "MAP"} /\ line.uri # "none"
    THEN IF ~HasQuotedUri(line) THEN Stripped(line, i)
         ELSE IF UrlJoinRaises(line) THEN Out(i, "raise", FALSE, FALSE, <<>>)
         ELSE LET absolute == UrlJoin(ctx.base_url, UriOf(line))
              IN  IF line.kind = "KEY"
                  THEN Out(i, "key", FALSE, FALSE, ProxyKeyUrl(absolute, ctx))
                  ELSE IF dlhd THEN Out(i, "absolute", FALSE, FALSE, absolute)
                  ELSE IF line.kind = "MEDIA"
                  THEN Out(i, "proxy/hls/manifest.m3u8", FALSE, FALSE,
                           ProxyUrl("/proxy/hls/manifest.m3u8?d=", absolute, ctx))
                  ELSE Out(i, "proxy/hls/segment.mp4", FALSE, FALSE,
                           ProxyUrl("/proxy/hls/segment.mp4?d=", absolute, ctx))
    ELSE IF line.kind = "REF"
    THEN IF ~StartsWithHttp(UriOf(line)) /\ UrlJoinRaises(line)
         THEN Out(i, "raise", FALSE, FALSE, <<>>)
         ELSE LET absolute_url == AbsoluteRef(UriOf(line), ctx)
              IN  IF dlhd THEN DlhdSegment(i, absolute_url, ctx)
                  ELSE IF HasM3u8(absolute_url)
                  THEN Out(i, "proxy/manifest.m3u8", FALSE, FALSE,
                           ProxyUrl("/proxy/manifest.m3u8?url=", absolute_url, ctx))
                  ELSE Out(i, "proxy/hls/segment.mp4", FALSE, FALSE,
                           ProxyUrl("/proxy/hls/segment.mp4?d=", absolute_url, ctx))
    ELSE Stripped(line, i)

\* An iteration that skips an empty line (`if not line: continue`)
AppendedSkippingEmpty(line, i, dlhd, ctx) ==
    IF line.kind = "EMPTY" THEN <<>> ELSE <<RewriteLine(line, i, dlhd, ctx)>>

\* rewritten_lines.append(...) of one iteration
Appended(line, i, dlhd, ctx) == <<RewriteLine(line, i, dlhd, ctx)>>

\* rewritten_lines after the iterations from line i on
RECURSIVE StandardFrom(_, _, _, _)
StandardFrom(ls, i, dlhd, ctx) ==
    IF i > Len(ls) THEN <<>>
    ELSE Appended(ls[i], i, dlhd, ctx) \o StandardFrom(ls, i + 1, dlhd, ctx)

StandardPlaylist(ls, dlhd, ctx) == StandardFrom(ls, 1, dlhd, ctx)

Raised == [raised |-> TRUE, out |-> <<>>]

Playlist(out) == [raised |-> FALSE, out |-> out]

\* The standard path: it returns unless an iteration raises
StandardPath(ls, dlhd, ctx) ==
    LET out == StandardPlaylist(ls, dlhd, ctx)
    IN  IF \E i \in 1..Len(out) : out[i].form = "raise" THEN Raised
        ELSE Playlist(out)

\* rewrite_manifest_urls after the stream detection
RewriteManifestUrls(ls, vix, dlhd, ctx) ==
    IF vix /\ VixScanRaises(ls) THEN Raised
    ELSE IF vix /\ StreamIndexes(ls) # {} THEN Playlist(VixSrcPlaylist(ls))
    ELSE StandardPath(ls, dlhd, ctx)

-----------------------------------------------------------------------------
(* The calls of rewrite_manifest_urls the model makes *)

Bandwidths == {<<100>>, <<200>>, <<100, 300>>}

InfLines ==
    {HLine("INF", FALSE, FALSE, "none", "", FALSE, b) : b \in Bandwidths \cup {<<>>}}
    \cup {HLine("INF", TRUE, FALSE, "none", "", FALSE, <<100>>)}

RefLines ==
    {HLine("REF", FALSE, FALSE, "none", "relative", m, <<>>) : m \in BOOLEAN}
    \cup {HLine("REF", FALSE, TRUE, "none", "absolute", FALSE, <<>>),
          HLine("REF", FALSE, FALSE, "none", "bad_relative", FALSE, <<>>)}

TagLinesIn ==
    {HLine("TAG", FALSE, t, "none", "", FALSE, <<>>) : t \in BOOLEAN}
    \cup {HLine("EMPTY", FALSE, t, "none", "", FALSE, <<>>) : t \in BOOLEAN}

UriLinesIn ==
    {HLine(k, FALSE, FALSE, "quoted", "relative", FALSE, <<>>) : k \in {"KEY", "MEDIA", "MAP"}}
    \cup {HLine("KEY", FALSE, FALSE, "unquoted", "", FALSE, <<>>),
          HLine("KEY", FALSE, FALSE, "quoted", "bad_absolute", FALSE, <<>>)}

HlsLineSet == InfLines \cup RefLines \cup TagLinesIn \cup UriLinesIn

\* ''.split('\n') has one (empty) line: a playlist has at least one line
FreePlaylists == UNION {[1..n -> HlsLineSet] : n \in 1..MaxLines}

RECURSIVE VariantLines(_, _)
VariantLines(bws, i) ==
    IF i > Len(bws) THEN <<>>
    ELSE <<HLine("INF", FALSE, FALSE, "none", "", FALSE, bws[i]),
           HLine("REF", FALSE, FALSE, "none", "relative", TRUE, <<>>)>>
         \o VariantLines(bws, i + 1)

\* A master playlist: #EXTM3U, one #EXT-X-MEDIA, then the variants
MasterPlaylists ==
    {<<HLine("TAG", FALSE, FALSE, "none", "", FALSE, <<>>),
       HLine("MEDIA", FALSE, FALSE, "quoted", "relative", TRUE, <<>>)>>
     \o VariantLines(bws, 1) :
        bws \in UNION {[1..n -> Bandwidths] : n \in 1..MaxVariants}}

\* The base_url of the playlist, without and with a query
LiveBase == <<"https", ":", "/", "/", "o.example", "/", "live", "/">>

TokenBase == LiveBase \o <<"index.m3u8", "?", "token", "=", "1">>

Referer ==
    [name |-> <<"Referer">>,
     value |-> <<"https", ":", "/", "/", "site.example", "/">>]

UserAgent == [name |-> <<"User-Agent">>, value |-> <<"Mozilla", " ", "5.0">>]

ChannelUrl == <<"https", ":", "/", "/", "ch.example", "/", "1">>

Context(base_url, stream_headers, api_password, original_channel_url) ==
    [base_url |-> base_url, stream_headers |-> stream_headers,
     api_password |-> api_password,
     original_channel_url |-> original_channel_url]

\* The other arguments of the call
Contexts ==
    {Context(LiveBase, <<>>, <<>>, <<>>),
     Context(LiveBase, <<Referer>>, <<"pw">>, ChannelUrl),
     Context(TokenBase, <<Referer, UserAgent>>, <<>>, ChannelUrl)}

HlsInputs ==
    {[lines |-> ls, has_func |-> hf, dlhd_available |-> da, ctx |-> ctx] :
        ls \in FreePlaylists \cup MasterPlaylists, hf \in BOOLEAN,
        da \in BOOLEAN, ctx \in Contexts}

InitHls ==
    /\ MediaIdle
    /\ MpdIdle
    /\ MasterIdle
    /\ ConcIdle
    /\ hls_in \in HlsInputs
    /\ hls_pc = "call"
    /\ hls_extractor = "none"
    /\ is_vixsrc_stream = FALSE
    /\ is_dlhd_stream = FALSE
    /\ hls_out = <<>>

\* Entry: the flags are initialised; without get_extractor_func the
\* detection is skipped, with it the call suspends at the await
HlsCall ==
    /\ hls_pc = "call"
    /\ hls_pc' = IF hls_in.has_func THEN "awaiting" ELSE "classified"
    /\ UNCHANGED <<hls_in, hls_extractor, is_vixsrc_stream, is_dlhd_stream,
                   hls_out, mediaVars, mpdVars, masterVars, concVars>>

\* get_extractor_func returns an extractor
ClassifierReturns ==
    /\ hls_pc = "awaiting"
    /\ \E extractor \in {"generic", "vixsrc", "dlhd"} :
        /\ hls_extractor' = extractor
        /\ is_vixsrc_stream' = FlagsOf(extractor, hls_in.dlhd_available).vix
        /\ is_dlhd_stream' = FlagsOf(extractor, hls_in.dlhd_available).dlhd
    /\ hls_pc' = "classified"
    /\ UNCHANGED <<hls_in, hls_out, mediaVars, mpdVars, masterVars, concVars>>

\* get_extractor_func raises (an error, a timeout)
ClassifierFails ==
    /\ hls_pc = "awaiting"
    /\ hls_extractor' = "failed"
    /\ is_vixsrc_stream' = FlagsOnFailure.vix
    /\ is_dlhd_stream' = FlagsOnFailure.dlhd
    /\ hls_pc' = IF FlagsOnFailure.raised THEN "raised" ELSE "classified"
    /\ UNCHANGED <<hls_in, hls_out, mediaVars, mpdVars, masterVars, concVars>>

\* The rest of the call: the VixSrc collapse or the standard path
HlsRewrite ==
    /\ hls_pc = "classified"
    /\ LET res == RewriteManifestUrls(hls_in.lines, is_vixsrc_stream,
                                          is_dlhd_stream, hls_in.ctx)
       IN  /\ hls_out' = res.out
           /\ hls_pc' = IF res.raised THEN "raised" ELSE "returned"
    /\ UNCHANGED <<hls_in, hls_extractor, is_vixsrc_stream, is_dlhd_stream,
                   mediaVars, mpdVars, masterVars, concVars>>

NextHls == HlsCall \/ ClassifierReturns \/ ClassifierFails \/ HlsRewrite

SpecHls == InitHls /\ [][NextHls]_vars

-----------------------------------------------------------------------------
(* The two entry points that take clearkey_param *)

\* A call of convert_media_playlist or calls of rewrite_mpd_manifest
InitDrm == InitMedia \/ InitMpd

NextDrm == ConvertMedia \/ RewriteMpd \/ RerunOnOutput

SpecDrm == InitDrm /\ [][NextDrm]_vars

-----------------------------------------------------------------------------
(* convert_master_playlist *)

(* The parsed MPD is the sequence of its AdaptationSets, each with its      *)
(* mimeType and contentType ("" when absent), its lang attribute and the    *)
(* sequence of its Representations; a Representation has its attributes,    *)
(* as sequences.  A line of the master playlist is a record: tag, the       *)
(* Representation it is for, and the attributes written on it.              *)

Rep(id, mimeType, bandwidth, width, height, frameRate, codecs) ==
    [id |-> id, mimeType |-> mimeType, bandwidth |-> bandwidth, width |-> width,
     height |-> height, frameRate |-> frameRate, codecs |-> codecs]

ASet(mimeType, contentType, lang, reps) ==
    [mimeType |-> mimeType, contentType |-> contentType, lang |-> lang,
     reps |-> reps]

MLine(tag, rep_id, bandwidth, resolution, frame_rate, codecs, audio, default) ==
    [tag |-> tag, rep_id |-> rep_id, bandwidth |-> bandwidth,
     resolution |-> resolution, frame_rate |-> frame_rate, codecs |-> codecs,
     audio |-> audio, default |-> default]

MTag(tag) == MLine(tag, "", <<>>, <<>>, <<>>, <<>>, FALSE, "")

\* `'video' in mime_type or 'video' in content_type`
IsVideoSet(aset) ==
    aset.mimeType \in {"video/mp4"} \/ aset.contentType \in {"video"}

\* `elif 'audio' in mime_type or 'audio' in content_type`
IsAudioSet(aset) ==
    ~IsVideoSet(aset)
    /\ (aset.mimeType \in {"audio/mp4"} \/ aset.contentType \in {"audio"})

\* adaptation_set.find('mpd:Representation[@mimeType="..."]') is not None
HasRepOf(aset, mimeType) ==
    \E i \in 1..Len(aset.reps) : aset.reps[i].mimeType = mimeType

\* The fallback detection, taken when both lists are empty
IsVideoByRep(aset) == HasRepOf(aset, "video/mp4")

IsAudioByRep(aset) == ~IsVideoByRep(aset) /\ HasRepOf(aset, "audio/mp4")

NoneDetected(asets) ==
    \A i \in 1..Len(asets) : ~IsVideoSet(asets[i]) /\ ~IsAudioSet(asets[i])

video_sets(asets) ==
    IF NoneDetected(asets) THEN SelectSeq(asets, IsVideoByRep)
    ELSE SelectSeq(asets, IsVideoSet)

audio_sets(asets) ==
    IF NoneDetected(asets) THEN SelectSeq(asets, IsAudioByRep)
    ELSE SelectSeq(asets, IsAudioSet)

\* The Representations of the sets, in document order
RECURSIVE RepsOf(_)
RepsOf(sets) ==
    IF sets = <<>> THEN <<>> ELSE sets[1].reps \o RepsOf(Tail(sets))

\* has_audio set whenever an audio AdaptationSet exists
HasAudioSet(sets) == sets # <<>>

\* has_audio after the audio loop: an #EXT-X-MEDIA entry was appended
HasAudio(sets) == RepsOf(sets) # <<>>

\* The #EXT-X-MEDIA lines: DEFAULT=YES for the first only
AudioLines(sets) ==
    [k \in 1..Len(RepsOf(sets)) |->
        MLine("#EXT-X-MEDIA", RepsOf(sets)[k].id,
              <<AttrOr(RepsOf(sets)[k].bandwidth, 128000)>>, <<>>, <<>>, <<>>,
              FALSE, IF k = 1 THEN "YES" ELSE "NO")]

\* `if width and height: inf += ',RESOLUTION=...'`
Resolution(rep) ==
    IF rep.width # <<>> /\ rep.height # <<>>
    THEN <<rep.width[1], rep.height[1]>> ELSE <<>>

\* The #EXT-X-STREAM-INF line of a video Representation and its URL line
VideoLines(sets, has_audio) ==
    [k \in 1..(2 * Len(RepsOf(sets))) |->
        LET rep == RepsOf(sets)[(k + 1) \div 2]
        IN  IF k % 2 = 1
            THEN MLine("#EXT-X-STREAM-INF", rep.id, rep.bandwidth,
                       Resolution(rep), rep.frameRate, rep.codecs, has_audio, "")
            ELSE MLine("URI", rep.id, <<>>, <<>>, <<>>, <<>>, FALSE, "")]

\* convert_master_playlist: the lines joined by '\n', or the error playlist
ConvertMasterPlaylist(in) ==
    IF ~in.parse_ok THEN <<MTag("#EXTM3U"), MTag("#EXT-X-ERROR")>>
    ELSE <<MTag("#EXTM3U"), MTag("#EXT-X-VERSION:3")>>
         \o AudioLines(audio_sets(in.asets))
         \o VideoLines(video_sets(in.asets), HasAudio(audio_sets(in.asets)))

-----------------------------------------------------------------------------
(* The calls of convert_master_playlist the model makes *)

MaxSets == 2       \* AdaptationSets of the MPD given to convert_master_playlist
MaxReps == 1       \* Representations of an AdaptationSet

\* The Representation of the example, and two that their own mimeType
\* tells apart
RepsIn ==
    {Rep("v720", "", <<2000000>>, <<1280>>, <<720>>, <<>>, <<>>),
     Rep("v2", "video/mp4", <<500000>>, <<640>>, <<>>, <<25>>, <<1>>),
     Rep("a2", "audio/mp4", <<>>, <<>>, <<>>, <<>>, <<>>)}

RepLists == UNION {[1..n -> RepsIn] : n \in 0..MaxReps}

ASetsIn ==
    {ASet(m, c, <<>>, reps) :
        m \in {"", "video/mp4", "audio/mp4"}, c \in {"", "audio"},
        reps \in RepLists}

\* A text that parses, with its AdaptationSets, or one that does not
MasterInputs ==
    {[parse_ok |-> TRUE, asets |-> asets] :
        asets \in UNION {[1..n -> ASetsIn] : n \in 0..MaxSets}}
    \cup {[parse_ok |-> FALSE, asets |-> <<>>]}

InitMaster ==
    /\ MediaIdle
    /\ MpdIdle
    /\ HlsIdle
    /\ ConcIdle
    /\ master_in \in MasterInputs
    /\ master_pc = "call"
    /\ master_out = <<>>

\* One call of convert_master_playlist
ConvertMaster ==
    /\ master_pc = "call"
    /\ master_out' = ConvertMasterPlaylist(master_in)
    /\ master_pc' = "returned"
    /\ UNCHANGED <<master_in, mediaVars, mpdVars, hlsVars, concVars>>

NextMaster == ConvertMaster

SpecMaster == InitMaster /\ [][NextMaster]_vars

-----------------------------------------------------------------------------
(* Calls in flight at the same time *)

(* The entry points are static methods without fields; what calls share is  *)
(* the interpreter: rewrite_mpd_manifest calls ET.register_namespace, which *)
(* writes the module-level dict xml.etree.ElementTree._namespace_map, and   *)
(* ET.tostring, which reads it.  register_namespace is two steps in Python  *)
(* (`del _namespace_map[k]` for the entries of the URI or prefix, then      *)
(* `_namespace_map[uri] = prefix`) and a thread switch may fall between     *)
(* them.  namespace_map keeps the entry of the DASH namespace: <<>> when    *)
(* there is none, <<"">> when the empty prefix is registered.  A call of    *)
(* rewrite_manifest_urls is a task that suspends at its await.              *)

Threads == 2       \* calls in flight at the same time

Procs == 1..Threads

Proc(kind, in) ==
    [kind |-> kind, pc |-> "call", in |-> in, extractor |-> "none",
     vix |-> FALSE, dlhd |-> FALSE, out |-> <<>>]

\* The prefix ET.tostring writes the DASH elements with: the registered one,
\* or a generated ns0 when the namespace has no entry
PrefixWritten(text, registry) ==
    IF ~Normalized(text).xmlns THEN ""
    ELSE IF registry = <<>> THEN "ns0" ELSE registry[1]

\* What rewrite_mpd_manifest returns with the registry as it finds it at
\* ET.tostring
Serialized(in, registry) ==
    [prefix |-> PrefixWritten(in.text, registry),
     text |-> RewriteMpdManifest(in.text, TRUE, in.clearkey).out]

\* An MPD with a Widevine ContentProtection (the namespace is declared by
\* the normalisation), a document whose root is not spelled MPD and declares
\* no namespace, and a text that does not parse
ConcMpdTexts ==
    {[well_formed |-> TRUE, xmlns |-> FALSE, mpd_tag |-> TRUE,
      asets |-> <<<<[scheme |-> "WV", laurl |-> "origin", wraps |-> 0]>>>>],
     [well_formed |-> TRUE, xmlns |-> FALSE, mpd_tag |-> FALSE, asets |-> <<>>],
     [well_formed |-> FALSE, xmlns |-> FALSE, mpd_tag |-> TRUE, asets |-> <<>>]}

ConcMpdInputs == {[text |-> t, clearkey |-> ck] : t \in ConcMpdTexts, ck \in {0, 2}}

ConcHlsInputs ==
    {[lines |-> ls, has_func |-> TRUE, dlhd_available |-> TRUE,
      ctx |-> Context(LiveBase, <<Referer>>, <<"pw">>, ChannelUrl)] :
        ls \in {<<HLine("KEY", FALSE, FALSE, "quoted", "relative", FALSE, <<>>),
                  HLine("REF", FALSE, FALSE, "none", "relative", FALSE, <<>>)>>,
                <<HLine("INF", FALSE, FALSE, "none", "", FALSE, <<200>>),
                  HLine("REF", FALSE, FALSE, "none", "relative", TRUE, <<>>)>>}}

ConcCalls ==
    {Proc("mpd", in) : in \in ConcMpdInputs}
    \cup {Proc("hls", in) : in \in ConcHlsInputs}

\* The calls start together; the interpreter is fresh or has served
\* rewrite_mpd_manifest before
InitConc ==
    /\ MediaIdle
    /\ MpdIdle
    /\ HlsIdle
    /\ MasterIdle
    /\ procs \in [Procs -> ConcCalls]
    /\ namespace_map \in {<<>>, <<"">>}

Step(p, pc, next) ==
    /\ procs[p].pc = pc
    /\ procs' = [procs EXCEPT ![p] = next]
    /\ UNCHANGED <<mediaVars, mpdVars, hlsVars, masterVars>>

\* ET.fromstring: a text that does not parse is returned from the except
\* clause, before anything is registered
MpdParse(p) ==
    /\ procs[p].kind = "mpd"
    /\ Step(p, "call",
            IF Normalized(procs[p].in.text).well_formed
            THEN [procs[p] EXCEPT !.pc = "parsed"]
            ELSE [procs[p] EXCEPT !.pc = "returned",
                     !.out = [prefix |-> "",
                              text |-> ReturnedOnError(procs[p].in.text)]])
    /\ UNCHANGED namespace_map

\* ET.register_namespace('', ...): the entries of the URI are deleted
RegisterDelete(p) ==
    /\ Step(p, "parsed", [procs[p] EXCEPT !.pc = "deleted"])
    /\ namespace_map' = <<>>

\* ET.register_namespace('', ...): `_namespace_map[uri] = prefix`
RegisterSet(p) ==
    /\ Step(p, "deleted", [procs[p] EXCEPT !.pc = "registered"])
    /\ namespace_map' = <<"">>

\* The tree is rewritten and ET.tostring writes it
MpdSerialize(p) ==
    /\ Step(p, "registered",
            [procs[p] EXCEPT !.pc = "returned",
                !.out = Serialized(procs[p].in, namespace_map)])
    /\ UNCHANGED namespace_map

\* rewrite_manifest_urls up to `await get_extractor_func(...)`
TaskCall(p) ==
    /\ procs[p].kind = "hls"
    /\ Step(p, "call", [procs[p] EXCEPT !.pc = "awaiting"])
    /\ UNCHANGED namespace_map

\* The await returns an extractor, or raises
TaskClassified(p) ==
    /\ \E extractor \in {"generic", "vixsrc", "dlhd", "failed"} :
        LET flags == IF extractor = "failed" THEN FlagsOnFailure
                     ELSE FlagsOf(extractor, procs[p].in.dlhd_available)
        IN  Step(p, "awaiting",
                 [procs[p] EXCEPT !.pc = "classified", !.extractor = extractor,
                                  !.vix = flags.vix, !.dlhd = flags.dlhd])
    /\ UNCHANGED namespace_map

\* The rest of rewrite_manifest_urls
TaskRewrite(p) ==
    /\ LET res == RewriteManifestUrls(procs[p].in.lines, procs[p].vix,
                                      procs[p].dlhd, procs[p].in.ctx)
       IN  Step(p, "classified",
                [procs[p] EXCEPT !.pc = IF res.raised THEN "raised" ELSE "returned",
                                 !.out = res.out])
    /\ UNCHANGED namespace_map

NextConc ==
    \E p \in Procs :
        \/ MpdParse(p)
        \/ RegisterDelete(p)
        \/ RegisterSet(p)
        \/ MpdSerialize(p)
        \/ TaskCall(p)
        \/ TaskClassified(p)
        \/ TaskRewrite(p)

SpecConc == InitConc /\ [][NextConc]_vars

-----------------------------------------------------------------------------
(* Properties of convert_media_playlist *)

MediaReturned == media_pc = "returned"

\* The call returned a playlist, not the error playlist
MediaOk == MediaReturned /\ media_err = ""

TimelineOk == MediaOk /\ media_in.template = "timeline"

LiveTimelineOk == TimelineOk /\ media_in.mpd_type = "dynamic"

RECURSIVE SumOfR(_)
SumOfR(timeline) ==
    IF timeline = <<>> THEN 0 ELSE timeline[1].r + SumOfR(Tail(timeline))

\* The segments an <S> stands for: r + 1 of them, none when r < -1
RECURSIVE SegmentsStoodFor(_)
SegmentsStoodFor(timeline) ==
    IF timeline = <<>> THEN 0
    ELSE (IF timeline[1].r >= -1 THEN timeline[1].r + 1 ELSE 0)
         + SegmentsStoodFor(Tail(timeline))

UriLines == {i \in 1..Len(lines) : lines[i].tag = "URI"}

TagLines(tag) == {i \in 1..Len(lines) : lines[i].tag = tag}

FirstOf(idx) == CHOOSE i \in idx : \A j \in idx : i <= j

IsSuffix(a, b) ==
    /\ Len(a) <= Len(b)
    /\ a = SubSeq(b, Len(b) - Len(a) + 1, Len(b))

Window == LIVE_WINDOW_SECONDS * AttrOr(media_in.timescale, 1)

\* C1 as stated: a SegmentTimeline of N <S> elements whose r attributes sum
\* to R expands to exactly N + R segments.
C1_CountIsNPlusR ==
    TimelineOk =>
        Len(all_segments) = Len(media_in.timeline) + SumOfR(media_in.timeline)

\* C1, amended: each <S> contributes r + 1 segments when r >= -1 and none
\* when r < -1; so the expansion has exactly N + R segments whenever every
\* r attribute is at least -1.
C1_ExpandedCount ==
    TimelineOk =>
        /\ Len(all_segments) = SegmentsStoodFor(media_in.timeline)
        /\ (\A i \in 1..Len(media_in.timeline) : media_in.timeline[i].r >= -1)
            => Len(all_segments)
                 = Len(media_in.timeline) + SumOfR(media_in.timeline)

\* A timeline of two <S> elements with r = 1 each was expanded to 2 + 2 segments
C1_Witness ==
    /\ TimelineOk
    /\ Len(media_in.timeline) = 2
    /\ \A i \in 1..2 : media_in.timeline[i].r = 1
    /\ Len(all_segments) = 4

C3_MediaSequenceIsFirstSegment ==
    (MediaOk /\ media_in.mpd_type = "dynamic" /\ UriLines # {}) =>
        \E i \in TagLines("#EXT-X-MEDIA-SEQUENCE") :
            lines[i].num = lines[FirstOf(UriLines)].num

\* C4 as stated: for every input whose MPD is VOD the returned text ends
\* with #EXT-X-ENDLIST, and for every live MPD it never contains it.
C4_EndListForEveryInput ==
    (MediaReturned /\ media_in.parse_ok) =>
        IF media_in.mpd_type = "dynamic"
        THEN TagLines("#EXT-X-ENDLIST") = {}
        ELSE lines[Len(lines)].tag = "#EXT-X-ENDLIST"

\* C4, amended: a playlist returned for a live MPD never contains
\* #EXT-X-ENDLIST; a playlist returned for a VOD MPD ends with
\* #EXT-X-ENDLIST unless it is the error playlist (Representation not found,
\* or an exception while converting), which has no #EXT-X-ENDLIST.
C4_EndList ==
    MediaReturned =>
        /\ media_in.mpd_type = "dynamic" => TagLines("#EXT-X-ENDLIST") = {}
        /\ (media_err = "" /\ media_in.mpd_type # "dynamic") =>
              /\ lines[Len(lines)].tag = "#EXT-X-ENDLIST"
              /\ TagLines("#EXT-X-ENDLIST") = {Len(lines)}
        /\ media_err # "" => TagLines("#EXT-X-ENDLIST") = {}

\* A VOD playlist with segments was returned and ends with #EXT-X-ENDLIST
C4_Witness ==
    /\ MediaOk
    /\ media_in.mpd_type = "static"
    /\ UriLines # {}
    /\ lines[Len(lines)].tag = "#EXT-X-ENDLIST"

\* The example: a live timeline of 50 segments of 2 seconds each
IsExample ==
    /\ LiveTimelineOk
    /\ Len(all_segments) = 50
    /\ \A i \in 1..50 : all_segments[i].d = 2 * AttrOr(media_in.timescale, 1)

\* C5 as stated: the example retains exactly the last 15 segments and emits
\* #EXT-X-MEDIA-SEQUENCE:35.
C5_ExampleSequence35 ==
    IsExample =>
        /\ segments_to_use = SubSeq(all_segments, 36, 50)
        /\ \E i \in TagLines("#EXT-X-MEDIA-SEQUENCE") : lines[i].num = 35
        /\ \A i \in TagLines("#EXT-X-MEDIA-SEQUENCE") : lines[i].num = 35

\* C5, amended: the example retains exactly the last 15 segments and emits
\* #EXT-X-MEDIA-SEQUENCE:startNumber+35, which is 36 with the default
\* startNumber of 1 and 35 only when startNumber is 0.
C5_ExampleSequence ==
    IsExample =>
        /\ segments_to_use = SubSeq(all_segments, 36, 50)
        /\ Cardinality(UriLines) = 15
        /\ \E i \in TagLines("#EXT-X-MEDIA-SEQUENCE") :
              lines[i].num = AttrOr(media_in.startNumber, 1) + 35
        /\ \A i \in TagLines("#EXT-X-MEDIA-SEQUENCE") :
              /\ lines[i].num = AttrOr(media_in.startNumber, 1) + 35
              /\ media_in.startNumber = <<>> => lines[i].num = 36
              /\ media_in.startNumber = <<0>> => lines[i].num = 35

\* The example was converted with the default startNumber
C5_Witness ==
    /\ IsExample
    /\ media_in.startNumber = <<>>
    /\ Len(segments_to_use) = 15
    /\ \E i \in TagLines("#EXT-X-MEDIA-SEQUENCE") : lines[i].num = 36

\* C6: in every playlist returned, the sequence numbers of the segments
\* listed are strictly increasing in the order they are listed.
C6_NumbersIncrease ==
    MediaOk =>
        /\ \A i, j \in UriLines : i < j => lines[i].num < lines[j].num
        /\ \A i, j \in 1..Len(all_segments) :
              i < j => all_segments[i].number < all_segments[j].number

\* A playlist lists segments whose <S t> moved the clock backwards
C6_Witness ==
    /\ MediaOk
    /\ Cardinality(UriLines) >= 3
    /\ \E i, j \in UriLines : i < j /\ lines[j].time < lines[i].time
    /\ \A i, j \in UriLines : i < j => lines[i].num < lines[j].num


-----------------------------------------------------------------------------
(* Properties of rewrite_mpd_manifest *)

MpdReturned == mpd_pc = "returned"

\* ContentProtection children that carry the ClearKey UUID, in any letter case
ClearKeyNodes(cps) == {i \in 1..Len(cps) : cps[i].scheme \in {"CK", "CK_UPPER"}}

\* The AdaptationSet holds the node an earlier call inserted
HasInjectedNode(cps) == \E i \in 1..Len(cps) : cps[i].laurl = "clearkey"

\* C7 as stated: a call with a clearkey on the output of a previous run
\* leaves exactly one ClearKey ContentProtection node in every AdaptationSet
\* that had already received the injected node.
C7_RerunLeavesOneClearKey ==
    (MpdReturned /\ ~mpd_failed /\ mpd_clearkey = 2) =>
        \A a \in 1..Len(mpd_arg.asets) :
            HasInjectedNode(mpd_arg.asets[a]) =>
                Cardinality(ClearKeyNodes(mpd_out.asets[a])) = 1

\* C8 as stated: on any parse or processing error rewrite_mpd_manifest
\* returns the manifest text it was given, unmodified.
C8_ErrorReturnsOriginal ==
    (MpdReturned /\ mpd_failed) => mpd_out = mpd_arg


-----------------------------------------------------------------------------
(* Properties of rewrite_manifest_urls *)

HlsEnded == hls_pc \in {"returned", "raised"}

\* C9 as stated: no public entry point raises on malformed manifest input;
\* here: whatever the playlist and the origin kind, rewrite_manifest_urls
\* returns text.
C9_NeverRaises == hls_pc # "raised"

\* What the generic path (no VixSrc, no DLHD special case) gives for the
\* same playlist
GenericOutcome == StandardPath(hls_in.lines, FALSE, hls_in.ctx)

\* C10: when awaiting get_extractor_func fails, the call goes on and ends
\* as the generic path ends for the same inputs: the same playlist is
\* returned (and the call raises only where the generic path raises).
C10_FailureFallsBackToGeneric ==
    /\ hls_extractor = "failed" => hls_pc \in {"classified", "returned", "raised"}
    /\ (hls_extractor = "failed" /\ hls_pc = "classified") =>
          ~is_vixsrc_stream /\ ~is_dlhd_stream
    /\ (hls_extractor = "failed" /\ HlsEnded) =>
          /\ (hls_pc = "raised") = GenericOutcome.raised
          /\ hls_pc = "returned" => hls_out = GenericOutcome.out

\* The classifier failed on a master playlist that the VixSrc collapse and
\* the DLHD path would have written differently, and the generic playlist
\* was returned
C10_Witness ==
    /\ hls_extractor = "failed"
    /\ hls_pc = "returned"
    /\ StreamIndexes(hls_in.lines) # {}
    /\ hls_out = GenericOutcome.out
    /\ hls_out # RewriteManifestUrls(hls_in.lines, TRUE, FALSE, hls_in.ctx).out
    /\ hls_out # RewriteManifestUrls(hls_in.lines, FALSE, TRUE, hls_in.ctx).out

HlsReturned == hls_pc = "returned"

\* The VixSrc collapse was taken: the origin is VixSrc and the scan found a
\* variant
Collapsed == is_vixsrc_stream /\ StreamIndexes(hls_in.lines) # {}

\* C11: outside the VixSrc collapse the playlist returned has exactly as
\* many lines as the input, and its line i is what the per-line dispatch
\* makes of input line i.
C11_LinesPreserved ==
    (HlsReturned /\ ~Collapsed) =>
        /\ Len(hls_out) = Len(hls_in.lines)
        /\ \A i \in 1..Len(hls_out) :
              /\ hls_out[i].src = i
              /\ hls_out[i] = RewriteLine(hls_in.lines[i], i, is_dlhd_stream,
                                          hls_in.ctx)

\* A playlist with an empty line followed by a reference was rewritten line
\* for line
C11_Witness ==
    /\ HlsReturned
    /\ ~Collapsed
    /\ Len(hls_in.lines) = 2
    /\ hls_in.lines[1].kind = "EMPTY"
    /\ hls_in.lines[2].kind = "REF"
    /\ Len(hls_out) = 2
    /\ hls_out[2].form = "proxy/hls/segment.mp4"

\* The lines the dispatch has no rewriting for: not a KEY / MEDIA / MAP tag
\* with a URI, not a reference
PassedThrough(line) ==
    /\ ~(line.kind \in {"KEY", "MEDIA", "MAP"} /\ line.uri # "none")
    /\ line.kind # "REF"

\* C12 as stated: in the standard path every such line is in the output
\* unchanged, character for character.
C12_PassedThroughUnchanged ==
    (HlsReturned /\ ~Collapsed) =>
        \A i \in 1..Len(hls_in.lines) :
            PassedThrough(hls_in.lines[i]) =>
                /\ hls_out[i].form = "stripped"
                /\ hls_out[i].url = UriOf(hls_in.lines[i])
                /\ hls_out[i].lead = hls_in.lines[i].lead
                /\ hls_out[i].trail = hls_in.lines[i].trail

\* C12, amended: in the standard path every such line is in the output with
\* its leading and trailing whitespace stripped and otherwise unchanged; it
\* is unchanged character for character exactly when it had no leading or
\* trailing whitespace.
C12_PassedThroughStripped ==
    (HlsReturned /\ ~Collapsed) =>
        \A i \in 1..Len(hls_in.lines) :
            PassedThrough(hls_in.lines[i]) =>
                /\ hls_out[i].form = "stripped"
                /\ hls_out[i].src = i
                /\ hls_out[i].url = UriOf(hls_in.lines[i])
                /\ ~hls_out[i].lead
                /\ ~hls_out[i].trail

\* A tag line that ended with whitespace (a '\r') was passed through
\* without it
C12_Witness ==
    /\ HlsReturned
    /\ ~Collapsed
    /\ \E i \in 1..Len(hls_in.lines) :
        /\ hls_in.lines[i].kind = "TAG"
        /\ hls_in.lines[i].trail
        /\ hls_out[i].form = "stripped"
        /\ ~hls_out[i].trail

\* The h_ pairs of the headers with name and value quoted with safe=""
RECURSIVE FullyEscapedPairs(_)
FullyEscapedPairs(headers) ==
    IF headers = <<>> THEN <<>>
    ELSE <<"&h_">> \o Quote(headers[1].name, {}) \o <<"=">>
         \o Quote(headers[1].value, {}) \o FullyEscapedPairs(Tail(headers))

EndsWith(text, tail) ==
    /\ Len(tail) <= Len(text)
    /\ SubSeq(text, Len(text) - Len(tail) + 1, Len(text)) = tail

\* The URL written points at the proxy
IsProxyUrl(url) == url # <<>> /\ url[1] = "{proxyBase}"

\* C13 as stated: every proxy URL written by rewrite_manifest_urls carries
\* one h_<name>=<value> pair for every entry of stream_headers, name and
\* value percent-encoded with every reserved character (also '/') escaped.
C13_HeadersFullyEscaped ==
    HlsReturned =>
        \A i \in 1..Len(hls_out) :
            IsProxyUrl(hls_out[i].url) =>
                EndsWith(hls_out[i].url,
                         FullyEscapedPairs(hls_in.ctx.stream_headers)
                            \o ApiPassword(hls_in.ctx))

\* An #EXT-X-KEY line with URI="..." (a value and a closing quote)
IsKeyLine(line) == line.kind = "KEY" /\ line.uri = "quoted"

\* {proxyBase}/key?key_url=<enc(absolute key URL)>&original_channel_url=
\* <enc(original_channel_url)>, the h_ pairs, the optional api_password
KeyUrlFor(line, ctx) ==
    <<"{proxyBase}", "/key?key_url=">>
    \o Quote(UrlJoin(ctx.base_url, UriOf(line)), {})
    \o <<"&original_channel_url=">> \o Quote(ctx.original_channel_url, {})
    \o HeaderPairs(ctx.stream_headers)
    \o (IF ctx.api_password = <<>> THEN <<>>
        ELSE <<"&api_password=">> \o ctx.api_password)

\* C14 as stated: for every #EXT-X-KEY line with a quoted URI the output has
\* that line with only the URI value replaced by the /key proxy URL, the
\* rest of the line as it was.
C14_KeyAlwaysRewritten ==
    HlsReturned =>
        \A i \in 1..Len(hls_in.lines) :
            IsKeyLine(hls_in.lines[i]) =>
                \E j \in 1..Len(hls_out) :
                    /\ hls_out[j].src = i
                    /\ hls_out[j].form = "key"
                    /\ hls_out[j].url = KeyUrlFor(hls_in.lines[i], hls_in.ctx)
                    /\ hls_out[j].lead = hls_in.lines[i].lead
                    /\ hls_out[j].trail = hls_in.lines[i].trail

\* C14, amended: in the standard path (no VixSrc collapse, which drops the
\* key lines), for every #EXT-X-KEY line with a quoted URI the playlist
\* returned has at the same position that line, stripped of leading and
\* trailing whitespace, with only the URI value replaced by the /key proxy
\* URL; URI="key.bin" with base https://o.example/live/ gives
\* key_url=https%3A%2F%2Fo.example%2Flive%2Fkey.bin; and when urljoin cannot
\* parse the key URI the call raises instead of returning.
C14_KeyRewritten ==
    (HlsEnded /\ ~Collapsed) =>
        \A i \in 1..Len(hls_in.lines) :
            IsKeyLine(hls_in.lines[i]) =>
                IF IsBadUrl(UriOf(hls_in.lines[i])) THEN hls_pc = "raised"
                ELSE HlsReturned =>
                    /\ hls_out[i].src = i
                    /\ hls_out[i].form = "key"
                    /\ hls_out[i].url = KeyUrlFor(hls_in.lines[i], hls_in.ctx)
                    /\ ~hls_out[i].lead /\ ~hls_out[i].trail
                    /\ (hls_in.ctx.base_url = LiveBase
                        /\ UriOf(hls_in.lines[i]) = <<"key.bin">>) =>
                          SubSeq(hls_out[i].url, 1, 11) =
                            <<"{proxyBase}", "/key?key_url=", "https", "%3A",
                              "%2F", "%2F", "o.example", "%2F", "live", "%2F",
                              "key.bin">>

\* The key line of the example was rewritten, with two headers forwarded
C14_Witness ==
    /\ HlsReturned
    /\ ~Collapsed
    /\ hls_in.ctx.stream_headers # <<>>
    /\ hls_in.ctx.api_password # <<>>
    /\ \E i \in 1..Len(hls_in.lines) :
        /\ IsKeyLine(hls_in.lines[i])
        /\ UriOf(hls_in.lines[i]) = <<"key.bin">>
        /\ hls_out[i].form = "key"
        /\ hls_out[i].url[11] = "key.bin"

\* The BANDWIDTH attribute of a variant line
BandwidthAttribute(line) == line.bandwidth[Len(line.bandwidth)]

\* C15 as stated: when the origin is VixSrc and the playlist has
\* #EXT-X-STREAM-INF variants, the playlist returned holds (after #EXTM3U)
\* only the input's #EXT-X-MEDIA lines and the INF line and URL line of a
\* variant whose BANDWIDTH is the maximum, all unmodified.
C15_VixSrcKeepsMaxBandwidth ==
    (HlsReturned /\ is_vixsrc_stream /\ StreamIndexes(hls_in.lines) # {}) =>
        \E h \in StreamIndexes(hls_in.lines) :
            /\ \A j \in StreamIndexes(hls_in.lines) :
                  BandwidthAttribute(hls_in.lines[j])
                      <= BandwidthAttribute(hls_in.lines[h])
            /\ hls_out = <<Out(0, "#EXTM3U", FALSE, FALSE, <<>>)>>
                         \o MediaTagsFrom(hls_in.lines, 1)
                         \o <<Verbatim(hls_in.lines, h),
                              Verbatim(hls_in.lines, h + 1)>>

\* C16: when the origin is classified DLHD, the playlist returned has the
\* URIs of #EXT-X-MEDIA and #EXT-X-MAP and the reference lines as absolute
\* origin URLs that do not start with proxyBase, the #EXT-X-KEY URI routed
\* through {proxyBase}/key, and no other URL that points at the proxy.
C16_DlhdOnlyKeyProxied ==
    (HlsReturned /\ is_dlhd_stream) =>
        \A i \in 1..Len(hls_in.lines) :
            LET line == hls_in.lines[i]
                url == hls_out[i].url
            IN  /\ hls_out[i].src = i
                /\ (line.kind \in {"MEDIA", "MAP"} /\ line.uri = "quoted") =>
                      /\ url = UrlJoin(hls_in.ctx.base_url, UriOf(line))
                      /\ StartsWithHttp(url) /\ ~IsProxyUrl(url)
                /\ line.kind = "REF" =>
                      /\ StartsWithHttp(url) /\ ~IsProxyUrl(url)
                      /\ \E n \in 1..Len(url) :
                            SubSeq(url, n, n + Len(UriOf(line)) - 1) = UriOf(line)
                /\ IsKeyLine(line) =>
                      IsProxyUrl(url) /\ url[2] = "/key?key_url="
                /\ IsProxyUrl(url) => IsKeyLine(line)

\* A DLHD playlist with a key line and a relative segment was returned: the
\* key goes through the proxy, the segment does not
C16_Witness ==
    /\ HlsReturned
    /\ is_dlhd_stream
    /\ Len(hls_in.lines) = 2
    /\ IsKeyLine(hls_in.lines[1])
    /\ hls_in.lines[2].kind = "REF" /\ hls_in.lines[2].form = "relative"
    /\ IsProxyUrl(hls_out[1].url)
    /\ hls_out[2].form = "absolute"
    /\ hls_out[2].url[1] = "https"

-----------------------------------------------------------------------------
(* Properties of convert_master_playlist *)

MasterReturned == master_pc = "returned"

MasterLines(tag) == {i \in 1..Len(master_out) : master_out[i].tag = tag}

\* The MPD of the example: one video Representation (bandwidth 2000000,
\* 1280x720) in a video AdaptationSet, and no audio AdaptationSet
IsMasterExample ==
    /\ master_in.parse_ok
    /\ Len(master_in.asets) = 1
    /\ master_in.asets[1].mimeType = "video/mp4"
    /\ master_in.asets[1].contentType = ""
    /\ Len(master_in.asets[1].reps) = 1
    /\ master_in.asets[1].reps[1].id = "v720"

\* C17: in the master playlist returned, an #EXT-X-STREAM-INF line carries
\* AUDIO="audio" if and only if at least one #EXT-X-MEDIA audio entry was
\* emitted; the example has exactly one #EXT-X-STREAM-INF line, with
\* BANDWIDTH=2000000, RESOLUTION=1280x720 and nothing else.
C17_AudioIffAudioEntry ==
    MasterReturned =>
        /\ \A i \in MasterLines("#EXT-X-STREAM-INF") :
              master_out[i].audio <=> MasterLines("#EXT-X-MEDIA") # {}
        /\ IsMasterExample =>
              /\ Cardinality(MasterLines("#EXT-X-STREAM-INF")) = 1
              /\ \A i \in MasterLines("#EXT-X-STREAM-INF") :
                    master_out[i] =
                        MLine("#EXT-X-STREAM-INF", "v720", <<2000000>>,
                              <<1280, 720>>, <<>>, <<>>, FALSE, "")

\* A video Representation was listed after an audio entry, with AUDIO=
C17_Witness ==
    /\ MasterReturned
    /\ MasterLines("#EXT-X-MEDIA") # {}
    /\ \E i \in MasterLines("#EXT-X-STREAM-INF") : master_out[i].audio

-----------------------------------------------------------------------------
(* Properties of convert_media_playlist: the URL schemes *)

\* C18 as stated: when the clearkey parameter parses, the playlist has no
\* #EXT-X-MAP and every segment URI is a /decrypt/segment.mp4 URL; otherwise,
\* for a template with an initialization attribute, it has an #EXT-X-MAP at
\* /segment/init.mp4 and every segment URI is a /segment/<name> URL.
C18_DecryptOrMap ==
    MediaOk =>
        IF media_in.clearkey = 2
        THEN /\ TagLines("#EXT-X-MAP") = {}
             /\ \A i \in UriLines : lines[i].url = "decrypt/segment.mp4"
        ELSE (media_in.template # "none" /\ media_in.initialization) =>
                /\ \E i \in TagLines("#EXT-X-MAP") :
                      lines[i].url = "segment/init.mp4"
                /\ \A i \in UriLines : lines[i].url = "segment"

\* The scheme the timeline path writes its segment URLs with
TimelineScheme ==
    IF media_in.clearkey = 2 THEN "decrypt/segment.mp4" ELSE "segment"

\* C19 as stated: a template without SegmentTimeline but with a fixed
\* duration lists its segments with the URL scheme the timeline path uses:
\* /decrypt/segment.mp4 under server-side decryption, else /segment/<name>.
C19_FixedDurationSameSchemes ==
    (MediaOk /\ media_in.template = "duration") =>
        \A i \in UriLines : lines[i].url = TimelineScheme

-----------------------------------------------------------------------------
(* Properties of calls in flight at the same time *)

\* What the call returns when nothing else runs: the text is the function
\* of its arguments (and of the classification result), written with the
\* prefix the call itself registered
ReturnedAlone(proc) ==
    IF proc.kind = "mpd"
    THEN IF Normalized(proc.in.text).well_formed
         THEN Serialized(proc.in, <<"">>)
         ELSE [prefix |-> "", text |-> ReturnedOnError(proc.in.text)]
    ELSE RewriteManifestUrls(proc.in.lines, proc.vix, proc.dlhd, proc.in.ctx).out

\* C20 as stated: the text a call returns depends only on its own arguments
\* (and the classification result), whatever calls ran before and however
\* it interleaves with the calls of other requests.
C20_OutputDependsOnArgumentsOnly ==
    \A p \in Procs :
        procs[p].pc = "returned" => procs[p].out = ReturnedAlone(procs[p])

-----------------------------------------------------------------------------
(* Properties of the clearkey parameter *)

\* The numbers of ':'-separated fields the split does not unpack
MalformedClearkey == {1, 3}

\* C21: with a clearkey parameter that does not split into exactly KID and
\* key, rewrite_mpd_manifest and convert_media_playlist return what they
\* return for the same inputs without clearkey: nothing is injected or
\* removed, no segment goes to /decrypt/, and the URLs are rewritten.
C21_MalformedClearkeyAsNone ==
    /\ (MpdReturned /\ mpd_clearkey \in MalformedClearkey) =>
          LET none == RewriteMpdManifest(mpd_arg, mpd_headers_ok, 0)
          IN  /\ mpd_out = none.out
              /\ mpd_failed = none.failed
    /\ (MediaReturned /\ media_in.clearkey \in MalformedClearkey) =>
          LET none == ConvertMediaPlaylist([media_in EXCEPT !.clearkey = 0])
          IN  /\ lines = none.lines
              /\ media_err = none.err
              /\ \A i \in UriLines : lines[i].url # "decrypt/segment.mp4"

\* A call with a malformed clearkey returned a manifest that kept its
\* Widevine ContentProtection, the licence URL behind the proxy
C21_Witness ==
    /\ MpdReturned
    /\ mpd_clearkey \in MalformedClearkey
    /\ ~mpd_failed
    /\ \E a \in 1..Len(mpd_out.asets) :
          \E i \in 1..Len(mpd_out.asets[a]) :
              /\ mpd_out.asets[a][i].scheme = "WV"
              /\ mpd_out.asets[a][i].wraps >= 1

\* C22 as stated: after a single call with a well-formed clearkey every
\* AdaptationSet has exactly one ClearKey ContentProtection child and none
\* of another scheme, whatever children it had before (checked on the
\* documents in which the AdaptationSets are found, those of the DASH
\* namespace).
C22_ExactlyOneClearKey ==
    (MpdReturned /\ ~mpd_failed /\ mpd_clearkey = 2 /\ mpd_runs = 1
     /\ Normalized(mpd_arg).xmlns) =>
        \A a \in 1..Len(mpd_out.asets) :
            /\ Cardinality(ClearKeyNodes(mpd_out.asets[a])) = 1
            /\ ClearKeyNodes(mpd_out.asets[a]) = 1..Len(mpd_out.asets[a])

-----------------------------------------------------------------------------
(* Properties of convert_media_playlist: the target duration *)

\* C23 as stated: a playlist returned without error that lists at least one
\* segment declares exactly one #EXT-X-TARGETDURATION, and its value is at
\* least the duration (d / timescale seconds) of every #EXTINF written, on
\* the timeline path and for fixed-duration templates, live and VOD.
C23_TargetDurationCoversSegments ==
    (MediaOk /\ TagLines("#EXTINF") # {}) =>
        /\ Cardinality(TagLines("#EXT-X-TARGETDURATION")) = 1
        /\ \A t \in TagLines("#EXT-X-TARGETDURATION") :
              \A i \in TagLines("#EXTINF") :
                  lines[t].num * lines[i].ts >= lines[i].d

=============================================================================
